---- MODULE Spec2Model ----
(***************************************************************************)
(* Model of the plum_ecomax number platform (number.py) and of the base    *)
(* entity's callback lifecycle (entity.py).                                *)
(*                                                                         *)
(* Four specifications share the variables:                                *)
(*   Spec           the callback lifecycle and the value setting of the    *)
(*                  top-level entities on the controller                   *)
(*   SubdeviceSpec  the same for an entity of a sub-device                 *)
(*   FilterSpec     the three descriptor filters applied to descriptor     *)
(*                  lists                                                  *)
(*   SetupSpec      async_setup_entry on the catalogs NUMBER_TYPES and     *)
(*                  MIXER_NUMBER_TYPES                                     *)
(***************************************************************************)
EXTENDS Integers, Sequences, FiniteSets, TLC

VARIABLES
    registry,   \* device._callbacks: device -> key -> list of registered filters
    data,       \* device.data: device -> key -> last dispatched value
    stage,      \* host side: entity -> where the host has it in its life cycle
    native,     \* entity -> _attr_native_value/_min_value/_max_value
    hass_state, \* entity -> the state last written by async_write_ha_state
    last,       \* the operation that ran last, with what it observed
    call,       \* FilterSpec: the filter application that ran last
    conn,       \* SetupSpec: the connection handed to async_setup_entry
    setup       \* SetupSpec: what async_setup_entry has done

vars == <<registry, data, stage, native, hass_state, last, call, conn, setup>>

lifecycleVars == <<registry, data, stage, native, hass_state, last>>

----------------------------------------------------------------------------
(* Bounds *)

MaxValue == 2      \* dispatched parameter values are 1..MaxValue

MaxLen == 2        \* descriptor lists handed to one filter are at most this long

MaxMixer == 2      \* sub-device indexes are 0..MaxMixer

----------------------------------------------------------------------------
(* Entities of the lifecycle specifications.  An entity is an EcomaxEntity  *)
(* bound to the connection's device object and carrying a descriptor.  The   *)
(* two top-level entities share a key, so their callbacks sit in one list   *)
(* of the controller, which also dispatches a key neither listens to.  The  *)
(* sub-device entity belongs to the sub-device at index 0 and listens to a  *)
(* key that the controller and the other sub-device dispatch as well.       *)

\* The device objects: connection.device and the two of connection.device.mixers.
Devices == {"ecomax", "mixer_0", "mixer_1"}

Keys == {"heating_target_temp", "mixer_target_temp"}

TopLevelEntities == {"e1", "e2"}

SubdeviceEntities == {"m1"}

Entities == TopLevelEntities \cup SubdeviceEntities

\* MixerNumber.index of the sub-device entity.
entity_index(e) == 0

\* connection.device.mixers[index]
mixers(index) == IF index = 0 THEN "mixer_0" ELSE "mixer_1"

\* entity.device: connection.device; for a sub-device entity the sub-device
\* at its index.
device(e) ==
    IF e \in SubdeviceEntities THEN mixers(entity_index(e)) ELSE "ecomax"

\* entity.entity_description.key
description_key(e) ==
    IF e \in SubdeviceEntities THEN "mixer_target_temp" ELSE "heating_target_temp"

\* Parameter objects a device dispatches: value, min_value, max_value.
Params == [value : 1..MaxValue, min_value : {0}, max_value : {MaxValue}]

NoParam == [value |-> 0, min_value |-> 0, max_value |-> 0]

\* An optional value: has = FALSE stands for None / a filter's initial value.
None == [has |-> FALSE, v |-> NoParam]

Some(p) == [has |-> TRUE, v |-> p]

----------------------------------------------------------------------------
(* pyplumio's filter and callback registry, as the entity uses them.        *)

\* on_change(callback): a new filter object around the callback, no value seen.
on_change(cb) == [callback |-> cb, value |-> None, kind |-> "on_change"]

\* Filter.__eq__: two filters are equal when they wrap equal callbacks; the
\* bound methods of one entity are equal, whichever filter object wraps them.
FilterEq(f, g) == f.callback = g.callback

\* The position of the first element of list that equals f, 0 if none.
IndexOf(list, f) ==
    IF \E i \in 1..Len(list) : FilterEq(list[i], f)
    THEN CHOOSE i \in 1..Len(list) :
            /\ FilterEq(list[i], f)
            /\ \A j \in 1..(i - 1) : ~FilterEq(list[j], f)
    ELSE 0

RemoveAt(list, i) ==
    [j \in 1..(Len(list) - 1) |-> IF j < i THEN list[j] ELSE list[j + 1]]

\* device.register_callback(name, callback): append to the key's list.
register_callback(reg, d, name, f) ==
    [reg EXCEPT ![d][name] = Append(@, f)]

\* device.remove_callback(name, callback): remove the first equal callback of
\* the key's list; nothing happens, and nothing is raised, when there is none.
remove_callback(reg, d, name, f) ==
    IF IndexOf(reg[d][name], f) = 0
    THEN [reg |-> reg, raised |-> FALSE]
    ELSE [reg |-> [reg EXCEPT ![d][name] = RemoveAt(@, IndexOf(reg[d][name], f))],
          raised |-> FALSE]

\* One filter called with a new value: _OnChange.__call__.  The wrapped
\* callback runs when no value was seen yet or the value differs from the one
\* seen last; the filter then remembers the value.
\* A callable that is no filter runs at every call and remembers nothing.
Fires(f, p) == f.kind # "on_change" \/ ~f.value.has \/ f.value.v # p

FilterCall(f, p) ==
    IF f.kind = "on_change" /\ Fires(f, p) THEN [f EXCEPT !.value = Some(p)]
    ELSE f

\* The callbacks a dispatch of p runs, in the order of the key's list.
RECURSIVE Invoked(_, _)
Invoked(list, p) ==
    IF list = <<>> THEN <<>>
    ELSE (IF Fires(Head(list), p) THEN <<Head(list).callback>> ELSE <<>>)
         \o Invoked(Tail(list), p)

Range(s) == {s[i] : i \in 1..Len(s)}

Count(x, s) == Cardinality({i \in 1..Len(s) : s[i] = x})

----------------------------------------------------------------------------
(* entity.py *)

OtherKey(k) ==
    IF k = "heating_target_temp" THEN "mixer_target_temp"
    ELSE "heating_target_temp"

\* The items registered under a key that is not the descriptor's.
callbacks_wrong_key(e) == << <<OtherKey(description_key(e)), on_change(e)>> >>

\* The callback registered as it is, without the filter around it.
callbacks_unfiltered(e) ==
    << <<description_key(e), [callback |-> e, value |-> None, kind |-> "plain"]>> >>

\* EcomaxEntity.callbacks: {entity_description.key: on_change(self.async_update)},
\* built anew at every access; as the list of its items.
callbacks(e) == << <<description_key(e), on_change(e)>> >>

RECURSIVE RegisterAll(_, _, _)
RegisterAll(reg, d, items) ==
    IF items = <<>> THEN reg
    ELSE RegisterAll(register_callback(reg, d, Head(items)[1], Head(items)[2]),
                     d, Tail(items))

\* The loop of async_removed_from_hass; an exception ends it.
RECURSIVE RemoveAll(_, _, _)
RemoveAll(reg, d, items) ==
    IF items = <<>> THEN [reg |-> reg, raised |-> FALSE]
    ELSE LET r == remove_callback(reg, d, Head(items)[1], Head(items)[2])
         IN  IF r.raised THEN r ELSE RemoveAll(r.reg, d, Tail(items))

\* async_added_to_hass: the registry after the entity registered its callbacks.
added_to_hass(reg, e) == RegisterAll(reg, device(e), callbacks(e))

\* Removal under the wrong name.
removed_from_hass_other_key(reg, e) ==
    RemoveAll(reg, device(e), callbacks_wrong_key(e))

\* Removal forgotten.
removed_from_hass_nothing(reg, e) == [reg |-> reg, raised |-> FALSE]

\* Removal of whatever callback heads the key's list.
removed_from_hass_head(reg, e) ==
    LET d == device(e)
        k == description_key(e)
    IN  [reg |-> IF reg[d][k] = <<>> THEN reg
                 ELSE [reg EXCEPT ![d][k] = Tail(@)],
         raised |-> FALSE]

\* async_removed_from_hass: the registry after the entity removed its
\* callbacks, and whether the removal raised.
removed_from_hass(reg, e) == RemoveAll(reg, device(e), callbacks(e))

\* How many filters of entity e are registered under key k of device d.
RegistrationsAt(reg, d, k, e) ==
    Cardinality({i \in 1..Len(reg[d][k]) : reg[d][k][i].callback = e})

RECURSIVE SumOver(_, _, _)
SumOver(reg, pairs, e) ==
    IF pairs = {} THEN 0
    ELSE LET t == CHOOSE t \in pairs : TRUE
         IN  RegistrationsAt(reg, t[1], t[2], e) + SumOver(reg, pairs \ {t}, e)

\* How many filters of entity e the registries of all devices hold.
Registrations(reg, e) == SumOver(reg, Devices \X Keys, e)

Attached(e) == stage[e] \in {"attached", "reattached"}

\* The parameter's minimum taken for its value.
async_update_min_as_value(e, p) ==
    Some([value |-> p.min_value, min_value |-> p.min_value, max_value |-> p.max_value])

\* EcomaxNumber.async_update: the entity's mirrored fields after an update.
async_update(e, p) ==
    Some([value |-> p.value, min_value |-> p.min_value, max_value |-> p.max_value])

\* device.set_nowait(name, value): the command is handed to the device to be
\* sent later; nothing is awaited and the device's data stay as they are.
set_nowait(name, value) == << <<name, value>> >>

\* The value written into the device's data as well as sent.
async_set_native_value_writes_device(dat, nat, e, value) ==
    LET fields == IF nat[e].has THEN nat[e].v ELSE NoParam
        new == Some([fields EXCEPT !.value = value])
    IN  [sent |-> set_nowait(description_key(e), value),
         native |-> [nat EXCEPT ![e] = new],
         writes |-> <<e>>,
         data |-> [dat EXCEPT ![device(e)][description_key(e)] = new]]

\* EcomaxNumber.async_set_native_value: the command sent, the entity's fields
\* (only the value is set), the state writes and the device's data after it.
async_set_native_value(dat, nat, e, value) ==
    [sent |-> set_nowait(description_key(e), value),
     native |-> [nat EXCEPT ![e] = Some([(IF nat[e].has THEN nat[e].v ELSE NoParam)
                                            EXCEPT !.value = value])],
     writes |-> <<e>>,
     data |-> dat]

\* The operation that ran last: its arguments, the device's value for the key
\* before it, the callbacks it ran, the entity's registrations before it,
\* whether it raised, the entities whose async_write_ha_state it called and the
\* commands it handed to the device.
Op(op, e, d, k, p, old, invoked, before, raised, writes, sent) ==
    [op |-> op, entity |-> e, dev |-> d, key |-> k, value |-> p, old |-> old,
     invoked |-> invoked, before |-> before, raised |-> raised,
     writes |-> writes, sent |-> sent]

----------------------------------------------------------------------------
(* number.py: descriptors *)

ProductTypes == {"ECOMAX_P", "ECOMAX_I"}

\* product_types and indexes are the marker ALL or a set.
All == [all |-> TRUE, set |-> {}]

Only(S) == [all |-> FALSE, set |-> S]

\* The module of a descriptor: None, or the name of an attribute.
NoModule == [has |-> FALSE, name |-> ""]

Module(name) == [has |-> TRUE, name |-> name]

\* The module of a descriptor that names none: the description class's
\* default, the controller's main module.
DefaultModule == Module("module_a")

\* The indexes of a sub-device descriptor that names none.
DefaultIndexes == All

Description(key, translation_key, product_types, indexes) ==
    [key |-> key, translation_key |-> translation_key,
     product_types |-> product_types, module |-> DefaultModule,
     indexes |-> indexes]

NUMBER_TYPES == <<
    Description("heating_target_temp", "target_heating_temp", Only({"ECOMAX_P"}), All),
    Description("min_heating_target_temp", "min_heating_temp", Only({"ECOMAX_P"}), All),
    Description("max_heating_target_temp", "max_heating_temp", Only({"ECOMAX_P"}), All),
    Description("grate_heating_temp", "grate_mode_temp", Only({"ECOMAX_P"}), All),
    Description("min_fuzzy_logic_power", "fuzzy_logic_min_power", Only({"ECOMAX_P"}), All),
    Description("max_fuzzy_logic_power", "fuzzy_logic_max_power", Only({"ECOMAX_P"}), All),
    Description("fuel_calorific_value", "fuel_calorific_value", Only({"ECOMAX_P"}), All),
    Description("heating_hysteresis", "heating_hysteresis", Only({"ECOMAX_P"}), All),
    Description("h1_hysteresis", "h1_hysteresis", Only({"ECOMAX_P"}), All),
    Description("h2_hysteresis", "h2_hysteresis", Only({"ECOMAX_P"}), All),
    Description("heating_pump_enable_temp", "heating_pump_enable_temp", Only({"ECOMAX_P"}), All),
    Description("water_heater_hysteresis", "water_heater_hysteresis", Only({"ECOMAX_P"}), All) >>

\* The circuit's minimum copied from the mixer's with its product type left in.
MIXER_NUMBER_TYPES_copied == <<
    Description("mixer_target_temp", "target_mixer_temp", Only({"ECOMAX_P"}), DefaultIndexes),
    Description("min_target_temp", "min_mixer_temp", Only({"ECOMAX_P"}), DefaultIndexes),
    Description("max_target_temp", "max_mixer_temp", Only({"ECOMAX_P"}), DefaultIndexes),
    Description("circuit_target_temp", "target_circuit_temp", Only({"ECOMAX_I"}), DefaultIndexes),
    Description("min_target_temp", "min_circuit_temp", Only({"ECOMAX_P", "ECOMAX_I"}), Only({2, 3})),
    Description("max_target_temp", "max_circuit_temp", Only({"ECOMAX_I"}), Only({2, 3})),
    Description("day_target_temp", "day_target_circuit_temp", Only({"ECOMAX_I"}), Only({2, 3})),
    Description("night_target_temp", "night_target_circuit_temp", Only({"ECOMAX_I"}), Only({2, 3})) >>

MIXER_NUMBER_TYPES == <<
    Description("mixer_target_temp", "target_mixer_temp", Only({"ECOMAX_P"}), DefaultIndexes),
    Description("min_target_temp", "min_mixer_temp", Only({"ECOMAX_P"}), DefaultIndexes),
    Description("max_target_temp", "max_mixer_temp", Only({"ECOMAX_P"}), DefaultIndexes),
    Description("circuit_target_temp", "target_circuit_temp", Only({"ECOMAX_I"}), DefaultIndexes),
    Description("min_target_temp", "min_circuit_temp", Only({"ECOMAX_I"}), Only({2, 3})),
    Description("max_target_temp", "max_circuit_temp", Only({"ECOMAX_I"}), Only({2, 3})),
    Description("day_target_temp", "day_target_circuit_temp", Only({"ECOMAX_I"}), Only({2, 3})),
    Description("night_target_temp", "night_target_circuit_temp", Only({"ECOMAX_I"}), Only({2, 3})) >>

\* An iterable of descriptors: the items it yields and whether it raises
\* after them.  A tuple yields all its elements and raises nothing.
Iter(seq) == [items |-> seq, raised |-> FALSE]

----------------------------------------------------------------------------
(* number.py: the filters.  Each is a generator over an iterable. *)

\* The empty set of product types taken for "any".
get_by_product_type_empty_is_all(product_type, descriptions) ==
    [items |-> SelectSeq(descriptions.items,
                  LAMBDA d : \/ d.product_types.all
                             \/ d.product_types.set = {}
                             \/ product_type \in d.product_types.set),
     raised |-> descriptions.raised]

get_by_product_type(product_type, descriptions) ==
    [items |-> SelectSeq(descriptions.items,
                  LAMBDA d : \/ d.product_types.all
                             \/ product_type \in d.product_types.set),
     raised |-> descriptions.raised]

\* getattr(connected_modules, name, None) is not None, for a name that is a
\* string: the attribute exists and is not None.
HasModule(connected_modules, name) ==
    /\ name \in DOMAIN connected_modules
    /\ connected_modules[name] = "present"

\* A descriptor without module kept instead of looked up.
RECURSIVE get_by_modules_none_kept(_, _)
get_by_modules_none_kept(connected_modules, descriptions) ==
    IF descriptions.items = <<>> THEN descriptions
    ELSE LET d == Head(descriptions.items)
             rest == get_by_modules_none_kept(connected_modules,
                        [descriptions EXCEPT !.items = Tail(@)])
         IN  IF ~d.module.has \/ HasModule(connected_modules, d.module.name)
             THEN [rest EXCEPT !.items = <<d>> \o @]
             ELSE rest

\* An attribute that exists taken for a connected module, None or not.
RECURSIVE get_by_modules_hasattr(_, _)
get_by_modules_hasattr(connected_modules, descriptions) ==
    IF descriptions.items = <<>> THEN descriptions
    ELSE LET d == Head(descriptions.items)
         IN  IF ~d.module.has
             THEN [items |-> <<>>, raised |-> TRUE]
             ELSE LET rest == get_by_modules_hasattr(connected_modules,
                                 [descriptions EXCEPT !.items = Tail(@)])
                  IN  IF connected_modules[d.module.name] # "missing"
                      THEN [rest EXCEPT !.items = <<d>> \o @]
                      ELSE rest

\* getattr raises TypeError for a name that is None: the generator yields
\* what it kept before that descriptor and raises there.
RECURSIVE get_by_modules(_, _)
get_by_modules(connected_modules, descriptions) ==
    IF descriptions.items = <<>> THEN descriptions
    ELSE LET d == Head(descriptions.items)
         IN  IF ~d.module.has
             THEN [items |-> <<>>, raised |-> TRUE]
             ELSE LET rest == get_by_modules(connected_modules,
                                 [descriptions EXCEPT !.items = Tail(@)])
                  IN  IF HasModule(connected_modules, d.module.name)
                      THEN [rest EXCEPT !.items = <<d>> \o @]
                      ELSE rest

Reverse(seq) == [i \in 1..Len(seq) |-> seq[Len(seq) + 1 - i]]

\* The survivors yielded last first.
get_by_index_reversed(index, descriptions) ==
    [items |-> Reverse(SelectSeq(descriptions.items,
                  LAMBDA d : d.indexes.all \/ (index + 1) \in d.indexes.set)),
     raised |-> descriptions.raised]

\* The index compared as it came, zero-based.
get_by_index_zero_based(index, descriptions) ==
    [items |-> SelectSeq(descriptions.items,
                  LAMBDA d : d.indexes.all \/ index \in d.indexes.set),
     raised |-> descriptions.raised]

get_by_index(index, descriptions) ==
    [items |-> SelectSeq(descriptions.items,
                  LAMBDA d : d.indexes.all \/ (index + 1) \in d.indexes.set),
     raised |-> descriptions.raised]

----------------------------------------------------------------------------
(* FilterSpec: one filter applied to a list of descriptors *)

ModuleNames == {"module_a", "module_b"}

\* A ConnectedModules snapshot: per name, whether the object has no such
\* attribute, has it with value None, or has it with a value.
Snapshots == [ModuleNames -> {"missing", "null", "present"}]

NoModules == [n \in ModuleNames |-> "missing"]

Pool ==
    {[key |-> "k", translation_key |-> "t", product_types |-> pt, module |-> m,
      indexes |-> ix] :
        pt \in {All, Only({}), Only({"ECOMAX_P"})},
        m \in {NoModule, Module("module_a"), Module("module_b")},
        ix \in {All, Only({2, 3})}}

Lists == UNION {[1..n -> Pool] : n \in 0..MaxLen}

Call(op, product_type, connected_modules, index, input, result) ==
    [op |-> op, product_type |-> product_type,
     connected_modules |-> connected_modules, index |-> index, input |-> input,
     out |-> result.items, raised |-> result.raised]

NoCall == Call("none", "ECOMAX_P", NoModules, 0, <<>>, Iter(<<>>))

NoConn == [product_type |-> "ECOMAX_P", modules |-> NoModules, mixers |-> {},
           has_mixers |-> FALSE, setup_mixers |-> FALSE, discovery |-> "ok"]

NoSetup == [pc |-> "none", entities |-> <<>>, raised |-> FALSE,
            add_calls |-> 0, added |-> <<>>, returned |-> FALSE,
            awaited |-> FALSE]

----------------------------------------------------------------------------
(* number.py: the entity factories and the platform's setup *)

EcomaxNumber(description) ==
    [cls |-> "EcomaxNumber", description |-> description, index |-> -1]

MixerNumber(description, index) ==
    [cls |-> "MixerNumber", description |-> description, index |-> index]

\* EcomaxEntity.unique_id: the connection's uid and the descriptor's key.
unique_id(n) == <<"uid", n.description.key>>

\* The device object an entity registers its callbacks with: the controller,
\* or for a sub-device entity the sub-device at its index.
EntityDevice(n) ==
    IF n.cls = "MixerNumber" THEN <<"mixer", n.index>> ELSE <<"ecomax">>

\* The list a comprehension builds from a generator; it has no value when
\* the generator raises.
ListEcomaxNumbers(it) ==
    [entities |-> IF it.raised THEN <<>>
                  ELSE [i \in 1..Len(it.items) |-> EcomaxNumber(it.items[i])],
     raised |-> it.raised]

ListMixerNumbers(it, index) ==
    [entities |-> IF it.raised THEN <<>>
                  ELSE [i \in 1..Len(it.items) |-> MixerNumber(it.items[i], index)],
     raised |-> it.raised]

async_setup_ecomax_numbers(connection) ==
    ListEcomaxNumbers(
        get_by_modules(connection.modules,
            get_by_product_type(connection.product_type, Iter(NUMBER_TYPES))))

\* The keys of device.mixers in the order the loop visits them.
RECURSIVE Ascending(_)
Ascending(S) ==
    IF S = {} THEN <<>>
    ELSE LET m == CHOOSE m \in S : \A n \in S : m <= n
         IN  <<m>> \o Ascending(S \ {m})

\* The descriptors of one sub-device.
MixerDescriptions(connection, index) ==
    get_by_index(index,
        get_by_modules(connection.modules,
            get_by_product_type(connection.product_type, Iter(MIXER_NUMBER_TYPES))))

\* Every sub-device given the descriptors of the lowest index.
RECURSIVE MixerLoopSharedFilter(_, _, _)
MixerLoopSharedFilter(connection, indexes, first) ==
    IF indexes = <<>> THEN [entities |-> <<>>, raised |-> FALSE]
    ELSE LET one == ListMixerNumbers(MixerDescriptions(connection, first),
                                     Head(indexes))
             rest == MixerLoopSharedFilter(connection, Tail(indexes), first)
         IN  IF one.raised THEN one
             ELSE IF rest.raised THEN rest
             ELSE [entities |-> one.entities \o rest.entities, raised |-> FALSE]

async_setup_mixer_numbers_shared_filter(connection) ==
    IF connection.mixers = {} THEN [entities |-> <<>>, raised |-> FALSE]
    ELSE MixerLoopSharedFilter(connection, Ascending(connection.mixers),
                               Head(Ascending(connection.mixers)))

RECURSIVE MixerLoop(_, _)
MixerLoop(connection, indexes) ==
    IF indexes = <<>> THEN [entities |-> <<>>, raised |-> FALSE]
    ELSE LET one == ListMixerNumbers(MixerDescriptions(connection, Head(indexes)),
                                     Head(indexes))
             rest == MixerLoop(connection, Tail(indexes))
         IN  IF one.raised THEN one
             ELSE IF rest.raised THEN rest
             ELSE [entities |-> one.entities \o rest.entities, raised |-> FALSE]

async_setup_mixer_numbers(connection) ==
    MixerLoop(connection, Ascending(connection.mixers))

Outcome(pc, entities, raised, add_calls, added, returned, awaited) ==
    [pc |-> pc, entities |-> entities, raised |-> raised, add_calls |-> add_calls,
     added |-> added, returned |-> returned, awaited |-> awaited]

\* How the request for the sub-devices' data can end.
Discoveries == {"ok", "failed", "timeout"}

\* connection.async_setup_mixers(): true when the request for the
\* sub-devices' data ended well and the device has such data; a request that
\* failed or timed out is reported as false, not raised.
async_setup_mixers(connection) ==
    connection.discovery = "ok" /\ connection.setup_mixers

\* A discovery that failed or timed out ends the setup with its exception.
async_setup_entry_fatal(connection) ==
    LET top == async_setup_ecomax_numbers(connection)
        awaited == connection.has_mixers
        with_mixers == connection.has_mixers /\ async_setup_mixers(connection)
        mix == IF with_mixers THEN async_setup_mixer_numbers(connection)
               ELSE [entities |-> <<>>, raised |-> FALSE]
    IN  IF top.raised
        THEN Outcome("done", <<>>, TRUE, 0, <<>>, FALSE, FALSE)
        ELSE IF mix.raised \/ (awaited /\ connection.discovery # "ok")
        THEN Outcome("done", <<>>, TRUE, 0, <<>>, FALSE, awaited)
        ELSE Outcome("done", <<>>, FALSE, 1, top.entities \o mix.entities, TRUE,
                     awaited)

\* The sub-device entities added whatever the capability check says.
async_setup_entry_unconditional(connection) ==
    LET top == async_setup_ecomax_numbers(connection)
        mix == async_setup_mixer_numbers(connection)
    IN  IF top.raised \/ mix.raised
        THEN Outcome("done", <<>>, TRUE, 0, <<>>, FALSE, connection.has_mixers)
        ELSE Outcome("done", <<>>, FALSE, 1, top.entities \o mix.entities, TRUE,
                     connection.has_mixers)

\* async_setup_entry: what it has done when it ends.  async_setup_mixers is
\* awaited only when has_mixers is true.
async_setup_entry(connection) ==
    LET top == async_setup_ecomax_numbers(connection)
        awaited == connection.has_mixers
        with_mixers == connection.has_mixers /\ async_setup_mixers(connection)
        mix == IF with_mixers THEN async_setup_mixer_numbers(connection)
               ELSE [entities |-> <<>>, raised |-> FALSE]
    IN  IF top.raised
        THEN Outcome("done", <<>>, TRUE, 0, <<>>, FALSE, FALSE)
        ELSE IF mix.raised
        THEN Outcome("done", <<>>, TRUE, 0, <<>>, FALSE, awaited)
        ELSE Outcome("done", <<>>, FALSE, 1, top.entities \o mix.entities, TRUE,
                     awaited)

----------------------------------------------------------------------------
(* The lifecycle variables where the other specifications leave them. *)

LifecycleInit ==
    /\ registry = [d \in Devices |-> [k \in Keys |-> <<>>]]
    /\ data = [d \in Devices |-> [k \in Keys |-> None]]
    /\ stage = [e \in Entities |-> "new"]
    /\ native = [e \in Entities |-> None]
    /\ hass_state = [e \in Entities |-> None]
    /\ last = Op("init", "e1", "ecomax", "heating_target_temp", NoParam, None,
                 <<>>, 0, FALSE, <<>>, <<>>)

----------------------------------------------------------------------------
(* FilterSpec: from the idle state, one application of one filter *)

\* The list of descriptors to filter is drawn at the start.
FilterInit ==
    /\ LifecycleInit
    /\ call \in {Call("none", "ECOMAX_P", NoModules, 0, input, Iter(<<>>)) :
                    input \in Lists}
    /\ conn = NoConn
    /\ setup = NoSetup

CallGetByProductType(product_type, input) ==
    /\ call.op = "none"
    /\ call' = Call("get_by_product_type", product_type, NoModules, 0, input,
                    get_by_product_type(product_type, Iter(input)))
    /\ UNCHANGED <<lifecycleVars, conn, setup>>

CallGetByModules(connected_modules, input) ==
    /\ call.op = "none"
    /\ call' = Call("get_by_modules", "ECOMAX_P", connected_modules, 0, input,
                    get_by_modules(connected_modules, Iter(input)))
    /\ UNCHANGED <<lifecycleVars, conn, setup>>

CallGetByIndex(index, input) ==
    /\ call.op = "none"
    /\ call' = Call("get_by_index", "ECOMAX_P", NoModules, index, input,
                    get_by_index(index, Iter(input)))
    /\ UNCHANGED <<lifecycleVars, conn, setup>>

FilterNext ==
    \/ \E pt \in ProductTypes : CallGetByProductType(pt, call.input)
    \/ \E cm \in Snapshots : CallGetByModules(cm, call.input)
    \/ \E ix \in 0..MaxMixer : CallGetByIndex(ix, call.input)

FilterSpec == FilterInit /\ [][FilterNext]_vars

----------------------------------------------------------------------------
(* SetupSpec *)

Connections ==
    [product_type : ProductTypes, modules : Snapshots,
     mixers : SUBSET (0..MaxMixer), has_mixers : BOOLEAN, setup_mixers : BOOLEAN,
     discovery : Discoveries]

SetupInit ==
    /\ LifecycleInit
    /\ call = NoCall
    /\ conn \in Connections
    /\ setup = [NoSetup EXCEPT !.pc = "start"]

AsyncSetupEntry ==
    /\ setup.pc = "start"
    /\ setup' = async_setup_entry(conn)
    /\ UNCHANGED <<lifecycleVars, call, conn>>

CallAsyncSetupEcomaxNumbers ==
    /\ setup.pc = "start"
    /\ setup' = LET r == async_setup_ecomax_numbers(conn)
                IN  Outcome("ecomax_numbers", r.entities, r.raised, 0, <<>>, FALSE,
                            FALSE)
    /\ UNCHANGED <<lifecycleVars, call, conn>>

CallAsyncSetupMixerNumbers ==
    /\ setup.pc = "start"
    /\ setup' = LET r == async_setup_mixer_numbers(conn)
                IN  Outcome("mixer_numbers", r.entities, r.raised, 0, <<>>, FALSE,
                            FALSE)
    /\ UNCHANGED <<lifecycleVars, call, conn>>

SetupNext ==
    \/ AsyncSetupEntry
    \/ CallAsyncSetupEcomaxNumbers
    \/ CallAsyncSetupMixerNumbers

SetupSpec == SetupInit /\ [][SetupNext]_vars

----------------------------------------------------------------------------
(* Spec: the callback lifecycle *)

Init ==
    /\ LifecycleInit
    /\ call = NoCall
    /\ conn = NoConn
    /\ setup = NoSetup

\* The host adds the entity and calls async_added_to_hass; it does so only
\* for an entity it does not hold.
AsyncAddedToHass(e) ==
    /\ ~Attached(e)
    /\ registry' = added_to_hass(registry, e)
    /\ stage' = [stage EXCEPT ![e] = IF @ = "new" THEN "attached" ELSE "reattached"]
    /\ last' = Op("attach", e, device(e), description_key(e), NoParam, None, <<>>,
                  Registrations(registry, e), FALSE, <<>>, <<>>)
    /\ UNCHANGED <<data, native, hass_state, call, conn, setup>>

\* async_removed_from_hass, in whatever stage the entity is.
AsyncRemovedFromHass(e) ==
    LET r == removed_from_hass(registry, e)
    IN  /\ registry' = r.reg
        /\ stage' = [stage EXCEPT ![e] = IF @ = "new" THEN "new" ELSE "detached"]
        /\ last' = Op("detach", e, device(e), description_key(e), NoParam, None,
                      <<>>, Registrations(registry, e), r.raised, <<>>, <<>>)
        /\ UNCHANGED <<data, native, hass_state, call, conn, setup>>

\* device.dispatch(name, value): every callback of a copy of the key's list is
\* called in order, then the value is stored in the device's data.  Each
\* async_update that runs sets the entity's fields and writes its state once.
Dispatch(d, k, p) ==
    LET list == registry[d][k]
        inv == Invoked(list, p)
    IN  /\ registry' = [registry EXCEPT
                          ![d][k] = [i \in 1..Len(list) |-> FilterCall(list[i], p)]]
        /\ native' = [e \in Entities |->
                        IF e \in Range(inv) THEN async_update(e, p) ELSE native[e]]
        /\ hass_state' = [e \in Entities |->
                            IF e \in Range(inv) THEN async_update(e, p)
                            ELSE hass_state[e]]
        /\ data' = [data EXCEPT ![d][k] = Some(p)]
        /\ last' = Op("dispatch", "e1", d, k, p, data[d][k], inv, 0, FALSE, inv,
                      <<>>)
        /\ UNCHANGED <<stage, call, conn, setup>>

\* The host sets a number's value: async_set_native_value, called for an
\* entity the host holds.  async_write_ha_state writes the entity's fields.
AsyncSetNativeValue(e, value) ==
    LET r == async_set_native_value(data, native, e, value)
    IN  /\ Attached(e)
        /\ native' = r.native
        /\ hass_state' = [hass_state EXCEPT ![e] = r.native[e]]
        /\ data' = r.data
        /\ last' = Op("set", e, device(e), description_key(e),
                      [NoParam EXCEPT !.value = value], data[device(e)][description_key(e)],
                      <<>>, Registrations(registry, e), FALSE, r.writes, r.sent)
        /\ UNCHANGED <<registry, stage, call, conn, setup>>

\* The two top-level entities and the controller.
Next ==
    \/ \E e \in TopLevelEntities : AsyncAddedToHass(e)
    \/ \E e \in TopLevelEntities : AsyncRemovedFromHass(e)
    \/ \E k \in Keys, p \in Params : Dispatch("ecomax", k, p)
    \/ \E e \in TopLevelEntities, value \in 1..MaxValue :
          AsyncSetNativeValue(e, value)

Spec == Init /\ [][Next]_vars

----------------------------------------------------------------------------
(* SubdeviceSpec: the sub-device entity, with the controller and both       *)
(* sub-devices dispatching its key                                           *)

SubdeviceNext ==
    \/ \E e \in SubdeviceEntities : AsyncAddedToHass(e)
    \/ \E e \in SubdeviceEntities : AsyncRemovedFromHass(e)
    \/ \E d \in Devices, p \in Params : Dispatch(d, "mixer_target_temp", p)
    \/ \E e \in SubdeviceEntities, value \in 1..MaxValue :
          AsyncSetNativeValue(e, value)

SubdeviceSpec == Init /\ [][SubdeviceNext]_vars

----------------------------------------------------------------------------
(* Claims about the callback lifecycle *)

\* C1: once an entity is detached after having been attached, no registry of
\* any device holds a callback of it, and a dispatch that ran while it is
\* detached did not run its async_update.
C1_DetachedHoldsNoRegistration ==
    \A e \in Entities :
        stage[e] = "detached" =>
            /\ Registrations(registry, e) = 0
            /\ last.op = "dispatch" => e \notin Range(last.invoked)

\* A dispatch under the key and device of an entity that was attached and
\* then detached.
C1_Witness ==
    \E e \in Entities :
        /\ stage[e] = "detached"
        /\ last.op = "dispatch"
        /\ last.dev = device(e)
        /\ last.key = description_key(e)

\* C2: an entity that was attached, detached and attached again holds exactly
\* one registration, under its key on its device, and a dispatch of a changed
\* value for that key runs its async_update exactly once.
C2_ReattachedHoldsOneRegistration ==
    \A e \in Entities :
        stage[e] = "reattached" =>
            /\ Registrations(registry, e) = 1
            /\ RegistrationsAt(registry, device(e), description_key(e), e) = 1
            /\ (/\ last.op = "dispatch"
                /\ last.dev = device(e)
                /\ last.key = description_key(e)
                /\ last.old # Some(last.value))
               => Count(e, last.invoked) = 1

\* A changed value reached an entity that had been attached again.
C2_Witness ==
    \E e \in Entities :
        /\ stage[e] = "reattached"
        /\ last.op = "dispatch"
        /\ last.dev = device(e)
        /\ last.key = description_key(e)
        /\ last.old # Some(last.value)
        /\ e \in Range(last.invoked)

C4_DetachOfDetachedIsNoOp ==
    [][(last'.op = "detach" /\ last'.before = 0)
          => (registry' = registry /\ ~last'.raised)]_vars

\* An entity with no registration was detached while another entity held a
\* registration under the same key of the same device.
C4_Witness ==
    /\ last.op = "detach"
    /\ last.before = 0
    /\ \E e \in Entities :
          /\ e # last.entity
          /\ device(e) = last.dev
          /\ description_key(e) = last.key
          /\ Attached(e)

\* The value the registered callback of entity e saw last; None when it saw
\* none or the entity has no registered callback.
SeenBy(reg, e) ==
    LET list == reg[device(e)][description_key(e)]
        i == IndexOf(list, on_change(e))
    IN  IF i = 0 THEN None ELSE list[i].value

\* C12: a dispatch for the key of an attached entity runs the entity's update,
\* and with it one state write, exactly when the value differs from the one
\* its registered callback saw last (or it saw none); otherwise the entity and
\* its written state stay as they are.  The same value dispatched twice in a
\* row runs no update the second time, so at most one over the two.
C12_SameValueIsSuppressed ==
    [][\A e \in Entities :
          (/\ Attached(e)
           /\ last'.op = "dispatch"
           /\ last'.dev = device(e)
           /\ last'.key = description_key(e)) =>
              LET seen == SeenBy(registry, e)
                  changed == ~seen.has \/ seen.v # last'.value
              IN  /\ Count(e, last'.invoked) = IF changed THEN 1 ELSE 0
                  /\ Count(e, last'.writes) = Count(e, last'.invoked)
                  /\ changed => hass_state'[e] = async_update(e, last'.value)
                  /\ ~changed => /\ hass_state'[e] = hass_state[e]
                                 /\ native'[e] = native[e]
                  /\ (/\ last.op = "dispatch"
                      /\ last.dev = last'.dev
                      /\ last.key = last'.key
                      /\ last.value = last'.value) =>
                         /\ Count(e, last'.writes) = 0
                         /\ Count(e, last.writes) + Count(e, last'.writes) <= 1
      ]_vars

\* A value reached an attached entity, which wrote it, and the same value
\* dispatched next reached no update and wrote nothing.
C12_Witness ==
    /\ last.op = "dispatch"
    /\ last.old = Some(last.value)
    /\ last.writes = <<>>
    /\ \E e \in Entities :
          /\ Attached(e)
          /\ last.dev = device(e)
          /\ last.key = description_key(e)
          /\ SeenBy(registry, e) = Some(last.value)
          /\ hass_state[e] = async_update(e, last.value)

\* C15: async_set_native_value(v) hands the device exactly one command,
\* set(key, v) for the entity's key, sets the entity's value to v and writes
\* its state once, in the same step and whatever the device dispatched
\* before; the device's data and the registries of callbacks stay as they
\* were, as do the other entities.  The device's data change in a dispatch
\* only.
C15_SetNativeValueFrame ==
    [][/\ last'.op = "set" =>
            /\ last'.sent = << <<description_key(last'.entity), last'.value.value>> >>
            /\ native'[last'.entity].has
            /\ native'[last'.entity].v.value = last'.value.value
            /\ hass_state'[last'.entity] = native'[last'.entity]
            /\ last'.writes = <<last'.entity>>
            /\ last'.invoked = <<>>
            /\ data' = data
            /\ registry' = registry
            /\ \A e \in Entities \ {last'.entity} :
                  native'[e] = native[e] /\ hass_state'[e] = hass_state[e]
       /\ data' # data => last'.op = "dispatch"
       /\ last'.op # "set" => last'.sent = <<>>
      ]_vars

\* A value was set through an attached entity that differs from the value
\* the device holds for the key, and the device still holds its own.
C15_Witness ==
    /\ last.op = "set"
    /\ Attached(last.entity)
    /\ data[last.dev][last.key].has
    /\ data[last.dev][last.key].v.value # last.value.value
    /\ hass_state[last.entity].v.value = last.value.value
    /\ SeenBy(registry, last.entity) = data[last.dev][last.key]

\* The device object whose dispatches an entity is to mirror: the controller,
\* for a sub-device entity the sub-device at the entity's index.
Dispatcher(e) ==
    IF e \in SubdeviceEntities THEN mixers(entity_index(e)) ELSE "ecomax"

\* The dispatch that ran last was one by the entity's device object, for the
\* entity's key, of a value other than the one the device held.
DispatchedChanged(e) ==
    /\ last.op = "dispatch"
    /\ last.dev = Dispatcher(e)
    /\ last.key = description_key(e)
    /\ last.old # Some(last.value)

\* C13 as stated: after a dispatch of a changed value for its key by its
\* device, or by the sub-device at its index, an attached entity's written
\* state mirrors the value; and an attached entity whose device has not
\* dispatched its key yet shows its initial state.
C13_InitialStateUntilDispatch ==
    \A e \in Entities :
        Attached(e) =>
            /\ DispatchedChanged(e) => hass_state[e] = async_update(e, last.value)
            /\ ~data[Dispatcher(e)][description_key(e)].has => hass_state[e] = None

\* C13 amended: after a dispatch of a changed value for its key by its
\* device, or by the sub-device at its index, an attached entity's written
\* state mirrors the value; an entity shows its initial state until it is
\* attached, and its written state changes only when a dispatch by its device
\* for its key runs its update or a value is set through it.
C13_DispatchIsMirrored ==
    [][\A e \in Entities :
          /\ stage[e] = "new" => hass_state[e] = None
          /\ (/\ Attached(e)
              /\ last'.op = "dispatch"
              /\ last'.dev = Dispatcher(e)
              /\ last'.key = description_key(e)
              /\ last'.old # Some(last'.value)) =>
                 /\ Count(e, last'.invoked) = 1
                 /\ hass_state'[e] = async_update(e, last'.value)
                 /\ hass_state'[e].v.value = last'.value.value
          /\ hass_state'[e] # hass_state[e] =>
                 \/ /\ last'.op = "dispatch"
                    /\ last'.dev = Dispatcher(e)
                    /\ last'.key = description_key(e)
                    /\ e \in Range(last'.invoked)
                 \/ /\ last'.op = "set"
                    /\ last'.entity = e
      ]_vars

\* The sub-device at index 0 dispatched a changed value, which the attached
\* sub-device entity mirrors, after the controller and the other sub-device
\* had dispatched other values for the same key.
C13_Witness ==
    /\ last.op = "dispatch"
    /\ \E e \in SubdeviceEntities :
          /\ Attached(e)
          /\ DispatchedChanged(e)
          /\ last.old.has
          /\ hass_state[e] = async_update(e, last.value)
          /\ \A d \in Devices \ {Dispatcher(e)} :
                /\ data[d][description_key(e)].has
                /\ data[d][description_key(e)] # Some(last.value)

----------------------------------------------------------------------------
(* Claims about the filters *)

Surviving(d) == d \in Range(call.out)

\* C5 as stated: get_by_modules keeps every descriptor whose module is None,
\* whatever the snapshot, and raises nothing.
C5_NoModuleIsKept ==
    call.op = "get_by_modules" =>
        /\ ~call.raised
        /\ \A i \in 1..Len(call.input) :
              ~call.input[i].module.has => Surviving(call.input[i])

\* C5 amended: get_by_modules raises exactly when its input holds a descriptor
\* whose module is None, and yields no such descriptor.
C5_NoModuleRaises ==
    call.op = "get_by_modules" =>
        /\ call.raised <=> \E i \in 1..Len(call.input) : ~call.input[i].module.has
        /\ \A d \in Range(call.out) : d.module.has

\* A descriptor without module followed one whose module is connected.
C5_Witness ==
    /\ call.op = "get_by_modules"
    /\ Len(call.input) = 2
    /\ call.input[1].module.has
    /\ call.connected_modules[call.input[1].module.name] = "present"
    /\ ~call.input[2].module.has
    /\ call.raised

C7_ProductTypeFilterIff ==
    call.op = "get_by_product_type" =>
        /\ ~call.raised
        /\ \A i \in 1..Len(call.input) :
              Surviving(call.input[i]) <=>
                  \/ call.input[i].product_types.all
                  \/ call.product_type \in call.input[i].product_types.set
        /\ \A d \in Range(call.out) : d.product_types # Only({})

\* A descriptor with the empty set of product types dropped beside one kept.
C7_Witness ==
    /\ call.op = "get_by_product_type"
    /\ \E i \in 1..Len(call.input) :
          /\ call.input[i].product_types = Only({})
          /\ ~Surviving(call.input[i])
    /\ call.out # <<>>

\* C8: a descriptor is yielded by get_by_index for the zero-based index i
\* exactly when its indexes are ALL or hold i + 1; one with indexes {2, 3} is
\* dropped for index 0 and kept for indexes 1 and 2.
C8_IndexFilterIff ==
    call.op = "get_by_index" =>
        /\ \A i \in 1..Len(call.input) :
              Surviving(call.input[i]) <=>
                  \/ call.input[i].indexes.all
                  \/ (call.index + 1) \in call.input[i].indexes.set
        /\ \A i \in 1..Len(call.input) :
              call.input[i].indexes = Only({2, 3}) =>
                  /\ call.index = 0 => ~Surviving(call.input[i])
                  /\ call.index \in {1, 2} => Surviving(call.input[i])

\* A descriptor with indexes {2, 3} kept for the zero-based index 1.
C8_Witness ==
    /\ call.op = "get_by_index"
    /\ call.index = 1
    /\ \E i \in 1..Len(call.input) :
          /\ call.input[i].indexes = Only({2, 3})
          /\ Surviving(call.input[i])

\* Whether a can be got from b by leaving elements out.
RECURSIVE IsSubsequence(_, _)
IsSubsequence(a, b) ==
    IF a = <<>> THEN TRUE
    ELSE IF b = <<>> THEN FALSE
    ELSE IF Head(a) = Head(b) /\ IsSubsequence(Tail(a), Tail(b)) THEN TRUE
    ELSE IsSubsequence(a, Tail(b))

\* C14: what a filter yields is a subsequence of its input: the survivors in
\* their order of the input, none more often than the input holds it and
\* none that the input does not hold; the input is the same list after the
\* filter ran as before.
C14_FilterYieldsSubsequence ==
    [][call.op = "none" =>
          /\ call'.input = call.input
          /\ IsSubsequence(call'.out, call'.input)
          /\ \A d \in Range(call'.out) :
                /\ d \in Range(call'.input)
                /\ Count(d, call'.out) <= Count(d, call'.input)
      ]_vars

\* get_by_index kept both of two different descriptors, in their order.
C14_Witness ==
    /\ call.op = "get_by_index"
    /\ Len(call.input) = 2
    /\ call.input[1] # call.input[2]
    /\ call.out = call.input

----------------------------------------------------------------------------
(* Claims about the platform's setup *)

\* Whether descriptor d passes the three criteria for the connection and the
\* zero-based sub-device index.
PassesProductType(d) ==
    d.product_types.all \/ conn.product_type \in d.product_types.set

PassesModules(d) ==
    d.module.has /\ conn.modules[d.module.name] = "present"

PassesIndex(d, index) == d.indexes.all \/ (index + 1) \in d.indexes.set

\* C9: async_setup_mixer_numbers returns one MixerNumber, built with the
\* zero-based index, for each known sub-device index and each descriptor of
\* MIXER_NUMBER_TYPES passing the three filters for that index, and nothing
\* else; with no sub-device it returns the empty list; it raises nothing.
C9_OneMixerNumberPerIndexAndDescriptor ==
    setup.pc = "mixer_numbers" =>
        /\ ~setup.raised
        /\ \A index \in 0..MaxMixer, k \in 1..Len(MIXER_NUMBER_TYPES) :
              Count(MixerNumber(MIXER_NUMBER_TYPES[k], index), setup.entities)
                  = IF /\ index \in conn.mixers
                       /\ PassesProductType(MIXER_NUMBER_TYPES[k])
                       /\ PassesModules(MIXER_NUMBER_TYPES[k])
                       /\ PassesIndex(MIXER_NUMBER_TYPES[k], index)
                    THEN 1 ELSE 0
        /\ \A n \in Range(setup.entities) :
              /\ n.cls = "MixerNumber"
              /\ n.index \in conn.mixers
              /\ n.description \in Range(MIXER_NUMBER_TYPES)
        /\ conn.mixers = {} => setup.entities = <<>>

\* Two sub-devices whose descriptor sets differ: index 0 gets one entity of
\* an ecoMAX I, index 1 gets five.
C9_Witness ==
    /\ setup.pc = "mixer_numbers"
    /\ conn.product_type = "ECOMAX_I"
    /\ conn.mixers = {0, 1}
    /\ Len(setup.entities) = 6

\* C10: when has_mixers is false or async_setup_mixers returns false,
\* async_setup_entry returns True after one call of async_add_entities, with
\* one EcomaxNumber per descriptor of NUMBER_TYPES passing the product-type
\* and module filters, and nothing else.
C10_NoMixersOnlyTopLevel ==
    (setup.pc = "done" /\ ~(conn.has_mixers /\ conn.setup_mixers)) =>
        /\ ~setup.raised
        /\ setup.returned
        /\ setup.add_calls = 1
        /\ \A n \in Range(setup.added) : n.cls = "EcomaxNumber"
        /\ \A k \in 1..Len(NUMBER_TYPES) :
              Count(EcomaxNumber(NUMBER_TYPES[k]), setup.added)
                  = IF /\ PassesProductType(NUMBER_TYPES[k])
                       /\ PassesModules(NUMBER_TYPES[k])
                    THEN 1 ELSE 0
        /\ \A n \in Range(setup.added) : n.description \in Range(NUMBER_TYPES)

\* The capability check failed on a connection whose sub-devices would have
\* got entities, and the top-level entities were added.
C10_Witness ==
    /\ setup.pc = "done"
    /\ conn.has_mixers
    /\ ~conn.setup_mixers
    /\ conn.mixers # {}
    /\ conn.product_type = "ECOMAX_P"
    /\ conn.modules["module_a"] = "present"
    /\ Len(setup.added) = Len(NUMBER_TYPES)

C16_KeysUniquePerDevice ==
    setup.pc = "done" =>
        \A i, j \in 1..Len(setup.added) :
            (i # j /\ EntityDevice(setup.added[i]) = EntityDevice(setup.added[j])) =>
                /\ setup.added[i].description.key # setup.added[j].description.key
                /\ unique_id(setup.added[i]) # unique_id(setup.added[j])

\* A circuit of an ecoMAX I got its own min_target_temp and max_target_temp
\* entities, whose keys the catalog holds twice, beside the other sub-device.
C16_Witness ==
    /\ setup.pc = "done"
    /\ conn.product_type = "ECOMAX_I"
    /\ {0, 1} \subseteq conn.mixers
    /\ \E i, j \in 1..Len(setup.added) :
          /\ setup.added[i] = MixerNumber(MIXER_NUMBER_TYPES[5], 1)
          /\ setup.added[j] = MixerNumber(MIXER_NUMBER_TYPES[6], 1)

====
